---- MODULE Spec2Model ----
(***************************************************************************)
(* A model of the uno server (src/uno/uno.py): the card set, draw_card,    *)
(* the turn loop of start(), the two phases of the registration and the    *)
(* sequence of run_game.                                                   *)
(* A card is the pair <<rank, color>> of the source; tuples are 1-based    *)
(* here, so card[1] is the source's card[0] and card[2] its card[1].       *)
(***************************************************************************)
EXTENDS Integers, Sequences, FiniteSets, TLC

VARIABLES
    deck,        \* the draw pile; its last card is drawn next
    played,      \* the discard pile; its last card is the current card
    play_order,  \* the entries [name, human, hand] in play order
    i,           \* the index of the for loop over play_order (0-based)
    skipped,     \* the skip flag of the turn loop
    pc,          \* the place in the turn loop
    card,        \* the variable card of start(): the card last taken from a hand
    dec,         \* the variable dec of start(): the last answer to "Select your card"
    out,         \* the messages sent by the last step
    turns,       \* iterations of the for loop completed so far
    refills,     \* history: how often draw_card found the deck empty
    rpc,         \* the place in await_connect
    now,         \* time.monotonic(), in units of the clock
    stime,       \* the variable stime of await_connect
    timeout,     \* the variable timeout of await_connect
    ctimeout,    \* the timeout await_connect was called with
    maxconnections,
    connected,   \* the list connected of await_connect
    sock,        \* the variable sock of await_connect: what select waits on
    selstart,    \* when the select in progress was entered
    backlog,     \* clients that connected and are not accepted yet
    sentname,    \* clients whose name has arrived at the server
    wire,        \* the messages the server sent, in order
    waits,       \* history: how often time went by
    named,       \* the dict named of await_usernames: its sockets, in order
    all,         \* the list all of await_usernames
    utimeout,    \* the timeout await_usernames is called with
    n_ai_players,
    closed       \* sockets of clients whose connection is closed

gvars == <<deck, played, play_order, i, skipped, pc, card, dec, out, turns, refills>>

\* the variables of await_usernames and the rest of run_game's arguments
nvars == <<named, all, utimeout, n_ai_players>>

rvars == <<rpc, now, stime, timeout, ctimeout, maxconnections, connected, sock,
           selstart, backlog, sentname, wire, waits, nvars>>

vars == <<gvars, rvars, closed>>

(***************************************************************************)
(* Bounds of the model.                                                    *)
(***************************************************************************)
\* humans in a game
MaxHumans == 2
\* AI players in a game
MaxAI == 1
\* cards left in the hand of the player about to act in a mid-game state
MaxHand == 2
\* the largest number a human types as a card selection
MaxIdx == 4
\* decisions (plays, draws, skips) followed from a sampled state
MaxTurns == 2
\* cards under the discard top in a sampled state
UnderSizes == {0, 1}
\* cards left in the deck in a sampled late-game state
LowDeckSizes == {0, 1}
\* cards in the deck in the other sampled states
MidDeckSize == 6

(***************************************************************************)
(* Sequence helpers.                                                       *)
(***************************************************************************)
Last(s) == s[Len(s)]

Front(s) == SubSeq(s, 1, Len(s) - 1)

Range(s) == {s[k] : k \in DOMAIN s}

RemoveAt(s, k) == SubSeq(s, 1, k - 1) \o SubSeq(s, k + 1, Len(s))

\* a reverse() that leaves the list as it is
Reverse_noop(s) == s

\* list.reverse()
Reverse(s) == [k \in 1..Len(s) |-> s[Len(s) + 1 - k]]

\* the orders random.shuffle can leave a list in
Shuffles(s) == {[k \in 1..Len(s) |-> s[f[k]]] : f \in Permutations(1..Len(s))}

(***************************************************************************)
(* The card set (module level of uno.py).                                  *)
(***************************************************************************)
colors == <<"RED", "BLUE", "GREEN", "YELLOW">>

dc == colors \o colors

\* str(x) for x in range(1, 10)
DigitStr == <<"1", "2", "3", "4", "5", "6", "7", "8", "9">>

ZeroCards == [c \in 1..Len(colors) |-> <<"0", colors[c]>>]

NumberCards ==
    [n \in 1..(Len(dc) * Len(DigitStr)) |->
        <<DigitStr[((n - 1) % Len(DigitStr)) + 1],
          dc[((n - 1) \div Len(DigitStr)) + 1]>>]

ActionRanks == <<"SKIP", "REVERSE", "DRAW2">>

ActionCards ==
    [n \in 1..(Len(dc) * Len(ActionRanks)) |->
        <<ActionRanks[((n - 1) % Len(ActionRanks)) + 1],
          dc[((n - 1) \div Len(ActionRanks)) + 1]>>]

WildPair == <<(<<"WILD", "ALL">>), (<<"WILD4", "ALL">>)>>

WildCards == WildPair \o WildPair \o WildPair \o WildPair

cards == ZeroCards \o NumberCards \o ActionCards \o WildCards

\* cards dealt to a hand by generate_hand
HandSize == 7

NoCard == <<"", "">>

\* card[0].startswith("WILD")
IsWild(c) == c[1] \in {"WILD", "WILD4"}

\* the play test of the human loop and of the AI's choices
legal(c, top) == IsWild(c) \/ c[1] = top[1] \/ c[2] = top[2]

\* int(card[0][-1]) for the two ranks that draw
DrawCount(c) == IF c[1] = "DRAW2" THEN 2 ELSE IF c[1] = "WILD4" THEN 4 ELSE 0

(***************************************************************************)
(* draw_card(deck, played).  The shuffle leaves the recycled cards in any  *)
(* order, so the result is a set of outcomes.  ok = FALSE is the           *)
(* IndexError of a pop from an empty list, with the lists as the call      *)
(* left them.                                                              *)
(***************************************************************************)
\* draw_card without its deck.extend(played)
draw_card_no_extend(d, p) ==
    IF d # <<>>
    THEN {[ok |-> TRUE, card |-> Last(d), deck |-> Front(d), played |-> p, refills |-> 0]}
    ELSE IF p = <<>>
    THEN {[ok |-> FALSE, card |-> NoCard, deck |-> d, played |-> p, refills |-> 1]}
    ELSE {[ok |-> FALSE, card |-> NoCard, deck |-> <<>>, played |-> <<Last(p)>>,
           refills |-> 1]}

\* draw_card that leaves the discard pile whole when it refills the deck
draw_card_keeps_pile(d, p) ==
    IF d # <<>>
    THEN {[ok |-> TRUE, card |-> Last(d), deck |-> Front(d), played |-> p, refills |-> 0]}
    ELSE IF p = <<>>
    THEN {[ok |-> FALSE, card |-> NoCard, deck |-> d, played |-> p, refills |-> 1]}
    ELSE {IF s = <<>>
          THEN [ok |-> FALSE, card |-> NoCard, deck |-> <<>>, played |-> p, refills |-> 1]
          ELSE [ok |-> TRUE, card |-> Last(s), deck |-> Front(s), played |-> p,
                refills |-> 1]
          : s \in Shuffles(Front(p))}

draw_card(d, p) ==
    IF d # <<>>
    THEN {[ok |-> TRUE, card |-> Last(d), deck |-> Front(d), played |-> p, refills |-> 0]}
    ELSE IF p = <<>>
    THEN {[ok |-> FALSE, card |-> NoCard, deck |-> d, played |-> p, refills |-> 1]}
    ELSE LET top == Last(p)
         IN {IF s = <<>>
             THEN [ok |-> FALSE, card |-> NoCard, deck |-> <<>>, played |-> <<top>>,
                   refills |-> 1]
             ELSE [ok |-> TRUE, card |-> Last(s), deck |-> Front(s), played |-> <<top>>,
                   refills |-> 1]
             : s \in Shuffles(Front(p))}

\* hand.extend(draw_card(deck, played) for _ in range(n)): the cards drawn
\* before a failing draw stay in the hand
RECURSIVE DrawMore(_, _, _, _, _)
DrawMore(n, d, p, h, f) ==
    IF n = 0
    THEN {[ok |-> TRUE, deck |-> d, played |-> p, hand |-> h, refills |-> f]}
    ELSE UNION {IF r.ok
                THEN DrawMore(n - 1, r.deck, r.played, Append(h, r.card), f + r.refills)
                ELSE {[ok |-> FALSE, deck |-> r.deck, played |-> r.played, hand |-> h,
                       refills |-> f + r.refills]}
                : r \in draw_card(d, p)}

DrawN(n, d, p, h) == DrawMore(n, d, p, h, 0)

(***************************************************************************)
(* What a client types.  Strings are looked up in tables that cover the    *)
(* inputs of the model.                                                    *)
(***************************************************************************)
\* str(n) for n in 0..9, at position n + 1
DecStr == <<"0", "1", "2", "3", "4", "5", "6", "7", "8", "9">>

\* str.isdigit
isdigit(s) == \E n \in 1..Len(DecStr) : DecStr[n] = s

\* int(dec) of a digit string
int(s) == (CHOOSE n \in 1..Len(DecStr) : DecStr[n] = s) - 1

\* str.upper
upper(s) ==
    CASE s \in {"draw", "Draw"} -> "DRAW"
      [] s = "red" -> "RED"
      [] s = "blue" -> "BLUE"
      [] s = "green" -> "GREEN"
      [] s = "yellow" -> "YELLOW"
      [] s = "all" -> "ALL"
      [] s = "x" -> "X"
      [] OTHER -> s

\* answers to "Select your card: "
DecInputs == {"DRAW", "draw", "x", "-1"} \cup {DecStr[n + 1] : n \in 0..MaxIdx}

\* answers to "Select a color"
ColorInputs == {"RED", "blue", "ALL", "x"}

(***************************************************************************)
(* Messages.  to = "all" is a broadcast, otherwise the one socket of       *)
(* send_user / send_input; who is the player a notice names.               *)
(***************************************************************************)
Msg(kind, to, who, what) == [kind |-> kind, to |-> to, who |-> who, what |-> what]

broadcast(who, what) == Msg("message", "all", who, what)

send_user(to, what) == Msg("message", to, "", what)

send_input(to, what) == Msg("input", to, "", what)

DrewText(n) == IF n = 2 THEN "drew 2 cards" ELSE "drew 4 cards"

(***************************************************************************)
(* The AI's choices and its color for a wild card.                         *)
(***************************************************************************)
\* choices that pass over the cards matching the top in rank only
choices_by_color(hand, top) ==
    {j \in DOMAIN hand : IsWild(hand[j]) \/ hand[j][2] = top[2]}

\* indices j of the hand that the AI may play (1-based)
choices(hand, top) == {j \in DOMAIN hand : legal(hand[j], top)}

ColorCount(hand, c) == Cardinality({k \in DOMAIN hand : hand[k][2] = c})

\* max(count.items(), key=count, default=(choice(colors), 0)): the first
\* color met in the hand among those with the highest count
AIColor(hand) ==
    IF hand = <<>>
    THEN Range(colors)
    ELSE LET best(k) == /\ \A m \in DOMAIN hand :
                              ColorCount(hand, hand[m][2]) <= ColorCount(hand, hand[k][2])
                        /\ \A m \in 1..(k - 1) :
                              ColorCount(hand, hand[m][2]) < ColorCount(hand, hand[k][2])
         IN {hand[k][2] : k \in {k \in DOMAIN hand : best(k)}}

(***************************************************************************)
(* The states a game is followed from.  InitDeal is the state start()      *)
(* builds: a shuffled deck, a hand of seven for each AI and then for each  *)
(* human, and the start card.  InitMid and InitPlayed are states in the    *)
(* middle of a game: the 108 cards spread over the hands, the discard pile *)
(* and the deck as the turns played so far left them, with the player at   *)
(* index i about to act.                                                   *)
(***************************************************************************)
\* the registration variables while a game is followed
RegIdle ==
    /\ rpc = "idle"
    /\ now = 0
    /\ stime = 0
    /\ timeout = 0
    /\ ctimeout = 0
    /\ maxconnections = 0
    /\ connected = <<>>
    /\ sock = "listen"
    /\ selstart = 0
    /\ backlog = <<>>
    /\ sentname = {}
    /\ wire = <<>>
    /\ waits = 0
    /\ named = <<>>
    /\ all = <<>>
    /\ utimeout = 0
    /\ n_ai_players = 0

\* names the clients registered with
HumanNames == <<"h1", "h2", "h3">>

\* f"Player {n}"
AINames == <<"Player 0", "Player 1", "Player 2">>

Entry(name, human, hand) == [name |-> name, human |-> human, hand |-> hand]

\* the checks of start() on the number of players
StartOK(nh, na) == na >= 0 /\ Len(cards) \div (na + nh) >= HandSize

\* generate_hand: [deck.pop() for x in range(7)]
generate_hand(d) == [k \in 1..HandSize |-> d[Len(d) + 1 - k]]

\* the deck after the n-th hand has been dealt from d
DeckAfter(d, n) == SubSeq(d, 1, Len(d) - n * HandSize)

\* orders generate_deck's shuffle may produce, followed in the model
DeckSamples == {cards, Reverse(cards)}

\* the deal of start() for nh humans and na AI players from the deck d0
Deal(nh, na, d0) ==
    LET ai_hands == [n \in 1..na |->
                        Entry(AINames[n], FALSE, generate_hand(DeckAfter(d0, n - 1)))]
        humans == [n \in 1..nh |->
                        Entry(HumanNames[n], TRUE, generate_hand(DeckAfter(d0, na + n - 1)))]
        d1 == DeckAfter(d0, na + nh)
    IN [play_order |-> humans \o ai_hands, deck |-> Front(d1), played |-> <<Last(d1)>>]

InitDeal ==
    \E nh \in 1..MaxHumans, na \in 0..MaxAI, d0 \in DeckSamples :
        /\ StartOK(nh, na)
        /\ play_order = Deal(nh, na, d0).play_order
        /\ deck = Deal(nh, na, d0).deck
        /\ played = Deal(nh, na, d0).played
        /\ out = <<broadcast("", "Start Card")>>
        /\ i = 0
        /\ skipped = FALSE
        /\ pc = "turn"
        /\ card = NoCard
        /\ dec = ""
        /\ turns = 0
        /\ refills = 0

\* s without the first occurrence of c
RemoveOne(s, c) ==
    IF c \in Range(s)
    THEN RemoveAt(s, CHOOSE k \in DOMAIN s : s[k] = c /\ \A m \in 1..(k - 1) : s[m] # c)
    ELSE s

RECURSIVE RemoveAll(_, _)
RemoveAll(s, cs) ==
    IF cs = <<>> THEN s ELSE RemoveAll(RemoveOne(s, cs[1]), SubSeq(cs, 2, Len(cs)))

\* cards the sampled hand of the acting player is made of
Pool == <<(<<"3", "RED">>), (<<"7", "BLUE">>), (<<"5", "GREEN">>), (<<"2", "YELLOW">>),
          (<<"SKIP", "RED">>), (<<"REVERSE", "RED">>), (<<"DRAW2", "RED">>),
          (<<"WILD", "ALL">>), (<<"WILD4", "ALL">>)>>

\* the discard top of a sampled state
Tops == {<<"7", "RED">>}

\* the hands sampled for the acting player: runs of the pool, taken cyclically
SampleHands ==
    {[k \in 1..n |-> Pool[((a + k - 2) % Len(Pool)) + 1]] :
        a \in DOMAIN Pool, n \in 1..MaxHand}

\* the answers to "Select your card: " that are a draw
DrawInputs == {a \in DecInputs : upper(a) = "DRAW"}

\* A game of one human who drew most of the deck: the hand h0 and the cards
\* drawn after it, a discard pile of the top and the cards played under it,
\* and the deck that is left.
InitMid ==
    \E top \in Tops, u \in UnderSizes, low \in BOOLEAN, dl \in LowDeckSizes,
       h0 \in SampleHands, ans \in DrawInputs :
        /\ low \/ \A x \in LowDeckSizes : dl <= x
        /\ LET \* the cards under the top: cards of the top's color, each of
               \* which could be played on the one before
               rest == RemoveAll(cards, <<top>> \o h0)
               under == SubSeq(SelectSeq(rest, LAMBDA c : c[2] = top[2]), 1, u)
               rest0 == RemoveAll(rest, under)
               \* the deck: in a late state the last cards of what is left, else
               \* cards none of which has the color ALL
               mid == SubSeq(SelectSeq(rest0, LAMBDA c : c[2] # "ALL"), 1, MidDeckSize)
               dk == IF low THEN SubSeq(rest0, Len(rest0) - dl + 1, Len(rest0)) ELSE mid
               \* the other cards were drawn by the player
               bulk == RemoveAll(rest0, dk)
           IN /\ play_order = <<Entry(HumanNames[1], TRUE, h0 \o bulk)>>
              /\ deck = dk
              /\ played = under \o <<top>>
              \* the card last taken from the hand: the top, if it was played
              \* and is not the start card
              /\ card = IF under = <<>> THEN NoCard ELSE top
        /\ i = 0
        /\ skipped = FALSE
        /\ pc = "turn"
        \* the last turn was a draw action of the player
        /\ dec = ans
        /\ out = <<send_input(HumanNames[1], "Select your card: "),
                   broadcast(HumanNames[1], "drew a card")>>
        /\ turns = 0
        /\ refills = 0

(***************************************************************************)
(* A game of several players in which every turn so far was the play of a  *)
(* number card: after the deal each player in turn played a card that      *)
(* matches the one before in color or rank, nobody drew, and the deck is   *)
(* what the deal left.  The player at index i0 is about to act and holds   *)
(* the hand h0 of m cards, having played 7 - m cards; the players after    *)
(* hold m cards too, the players before have played one card more.  The    *)
(* discard pile is the start card and the cards played, in order.          *)
(***************************************************************************)
\* the ranks of the number cards of one color, upwards and downwards
Up == [k \in 1..(2 * Len(DigitStr) + 1) |-> DecStr[(k \div 2) + 1]]

Down == [k \in DOMAIN Up |-> Up[Len(Up) + 1 - k]]

ColorRun(color, ranks) == [k \in DOMAIN ranks |-> <<ranks[k], color>>]

\* the number cards in an order in which each can be played on the one
\* before; a run of it without some of its cards is such an order again, as
\* long as it stays within one color or goes over to the next by a rank
ChainOrder ==
    ColorRun("YELLOW", Up) \o ColorRun("GREEN", Down)
        \o ColorRun("BLUE", Up) \o ColorRun("RED", Down)

\* each card of the pile p passed the play test against the one under it
IsChain(p) == {k \in 1..(Len(p) - 1) : ~legal(p[k + 1], p[k])} = {}

\* the cards left in the hands of the players who are not about to act, by
\* position in the play order
FillerHands ==
    <<(<<(<<"4", "GREEN">>), (<<"6", "GREEN">>), (<<"8", "GREEN">>)>>),
      (<<(<<"7", "GREEN">>), (<<"2", "GREEN">>), (<<"3", "GREEN">>)>>),
      (<<(<<"1", "YELLOW">>), (<<"3", "YELLOW">>), (<<"4", "YELLOW">>)>>),
      (<<(<<"5", "YELLOW">>), (<<"6", "YELLOW">>), (<<"8", "YELLOW">>)>>),
      (<<(<<"1", "GREEN">>), (<<"9", "GREEN">>), (<<"0", "GREEN">>)>>)>>

RECURSIVE Concat(_)
Concat(ss) == IF ss = <<>> THEN <<>> ELSE ss[1] \o Concat(SubSeq(ss, 2, Len(ss)))

InitPlayed ==
    \E nh \in 1..MaxHumans, na \in 0..MaxAI, top \in Tops, h0 \in SampleHands :
    \E i0 \in {0, nh + na - 1} :
        LET n == nh + na
            m == Len(h0)
            held(k) == IF k < i0 + 1 THEN m - 1 ELSE m
            hands == [k \in 1..n |->
                         IF k = i0 + 1 THEN h0 ELSE SubSeq(FillerHands[k], 1, held(k))]
            \* the cards played: 7 - m by each player, one more by those before i0
            need == n * (HandSize - m) + i0
            avail == RemoveAll(ChainOrder, <<top>> \o Concat(hands))
            pile == SubSeq(avail, Len(avail) - need + 1, Len(avail)) \o <<top>>
            who(k) == IF k <= nh THEN HumanNames[k] ELSE AINames[k - nh]
            \* the player who played the top, and the human who answered last
            prev == IF i0 = 0 THEN n ELSE i0
            asked == IF prev <= nh THEN prev ELSE nh
        IN /\ n >= 2
           /\ StartOK(nh, na)
           /\ m < HandSize
           \* a human before i0 who played their last card would have won
           /\ i0 > 0 => m >= 2
           /\ need <= Len(avail)
           /\ IsChain(pile)
           /\ play_order = [k \in 1..n |-> Entry(who(k), k <= nh, hands[k])]
           /\ deck = RemoveAll(cards, pile \o Concat(hands))
           /\ played = pile
           /\ i = i0
           /\ skipped = FALSE
           /\ pc = "turn"
           /\ card = top
           \* the card played was the one after the cards the hand keeps
           /\ dec = DecStr[Len(hands[asked]) + 2]
           /\ out = IF prev <= nh
                    THEN <<send_input(who(prev), "Select your card: "),
                           broadcast(who(prev), "played")>>
                    ELSE <<broadcast(who(prev), "turn"), broadcast(who(prev), "played")>>
           /\ turns = 0
           /\ refills = 0

Init == (InitDeal \/ InitMid \/ InitPlayed) /\ RegIdle /\ closed = {}

(***************************************************************************)
(* The turn loop of start().  pc is the place in the loop: "turn" at the   *)
(* top of the for body for index i, "select" in the human's card loop,     *)
(* "color" in the human's color loop, "done" after the return, and after   *)
(* an exception that start() does not catch "crash_draw" (draw_card's pop  *)
(* from an empty list) or "crash_pop" (hand.pop(idx) out of range).        *)
(***************************************************************************)
Step(dk, pl, po, ii, sk, p, c, o, t) ==
    /\ deck' = dk
    /\ played' = pl
    /\ play_order' = po
    /\ i' = ii
    /\ skipped' = sk
    /\ pc' = p
    /\ card' = c
    /\ out' = o
    /\ turns' = t

\* the entry of play_order the for loop is at
Cur == play_order[i + 1]

\* the index the loop goes on with: the next entry, or entry 0 of the next
\* pass of the while loop
NextI == IF i + 1 < Len(play_order) THEN i + 1 ELSE 0

\* the skip flag the next iteration sees: the while loop sets skipped = False
\* before every pass over play_order
NextSkipped(sk) == IF i + 1 < Len(play_order) THEN sk ELSE FALSE

\* the entry that takes the cards of a DRAW2 or WILD4
NextPlayer(po) == ((i + 1) % Len(po)) + 1

\* if skipped: ... continue
SkipTurn ==
    /\ pc = "turn"
    /\ turns < MaxTurns
    /\ skipped
    /\ Step(deck, played, play_order, NextI, NextSkipped(FALSE), "turn", card,
            <<broadcast(Cur.name, "was skipped")>>, turns + 1)
    /\ UNCHANGED <<dec, refills>>
    /\ UNCHANGED <<rvars, closed>>

\* a draw action that sets the skip flag as a played SKIP does
DrawAction_skips(pre) ==
    \E r \in draw_card(deck, played) :
        /\ refills' = refills + r.refills
        /\ IF r.ok
           THEN Step(r.deck, r.played,
                     [play_order EXCEPT ![i + 1].hand = Append(@, r.card)],
                     NextI, NextSkipped(TRUE), "turn", card,
                     pre \o <<broadcast(Cur.name, "drew a card")>>, turns + 1)
           ELSE Step(r.deck, r.played, play_order, i, skipped, "crash_draw", card,
                     pre, turns)

\* else: hand.append(draw_card(deck, played))
DrawAction(pre) ==
    \E r \in draw_card(deck, played) :
        /\ refills' = refills + r.refills
        /\ IF r.ok
           THEN Step(r.deck, r.played,
                     [play_order EXCEPT ![i + 1].hand = Append(@, r.card)],
                     NextI, NextSkipped(FALSE), "turn", card,
                     pre \o <<broadcast(Cur.name, "drew a card")>>, turns + 1)
           ELSE Step(r.deck, r.played, play_order, i, skipped, "crash_draw", card,
                     pre, turns)

\* effects that do not put the played card on the discard pile
ApplyEffects_no_discard(c, who, po, pre) ==
    LET ndraw == DrawCount(c)
        po1 == IF c[1] = "REVERSE" THEN Reverse(po) ELSE po
        sk == (c[1] = "SKIP")
        t == NextPlayer(po1)
        msgs == pre \o <<broadcast(who, "played")>>
    IN IF ndraw = 0
       THEN /\ Step(deck, played, po1, NextI, NextSkipped(sk), "turn", c, msgs, turns + 1)
            /\ UNCHANGED refills
       ELSE \E r \in DrawN(ndraw, deck, played, po1[t].hand) :
               /\ refills' = refills + r.refills
               /\ IF r.ok
                  THEN Step(r.deck, r.played, [po1 EXCEPT ![t].hand = r.hand],
                            NextI, NextSkipped(sk), "turn", c,
                            msgs \o <<broadcast(po1[t].name, DrewText(ndraw))>>,
                            turns + 1)
                  ELSE Step(r.deck, r.played, [po1 EXCEPT ![t].hand = r.hand],
                            i, sk, "crash_draw", c, msgs, turns)

\* if not drew: the effects of the card c played by who; po is the play
\* order with the card taken out of the player's hand
ApplyEffects(c, who, po, pre) ==
    LET ndraw == DrawCount(c)
        po1 == IF c[1] = "REVERSE" THEN Reverse(po) ELSE po
        sk == (c[1] = "SKIP")
        pl1 == Append(played, c)
        t == NextPlayer(po1)
        msgs == pre \o <<broadcast(who, "played")>>
    IN IF ndraw = 0
       THEN /\ Step(deck, pl1, po1, NextI, NextSkipped(sk), "turn", c, msgs, turns + 1)
            /\ UNCHANGED refills
       ELSE \E r \in DrawN(ndraw, deck, pl1, po1[t].hand) :
               /\ refills' = refills + r.refills
               /\ IF r.ok
                  THEN Step(r.deck, r.played, [po1 EXCEPT ![t].hand = r.hand],
                            NextI, NextSkipped(sk), "turn", c,
                            msgs \o <<broadcast(po1[t].name, DrewText(ndraw))>>,
                            turns + 1)
                  ELSE Step(r.deck, r.played, [po1 EXCEPT ![t].hand = r.hand],
                            i, sk, "crash_draw", c, msgs, turns)

\* a human's turn begins: the notices before the card loop
HumanTurn ==
    /\ pc = "turn"
    /\ turns < MaxTurns
    /\ ~skipped
    /\ Cur.human
    /\ Step(deck, played, play_order, i, skipped, "select", card,
            <<broadcast(Cur.name, "turn"), send_user(Cur.name, "Its your turn!")>>, turns)
    /\ UNCHANGED <<dec, refills>>
    /\ UNCHANGED <<rvars, closed>>

\* the bound test with >= for >
TooBig_ge(ans, hand) == int(ans) - 1 >= Len(hand)

\* elif (int(dec) - 1) > len(hand)
TooBig(ans, hand) == int(ans) - 1 > Len(hand)

\* hand.pop(idx) raises for an index outside the list
PopRaises(idx, hand) == idx >= Len(hand) \/ idx < 0 - Len(hand)

\* the 1-based position that hand.pop(idx) removes
PopAt(idx, hand) == IF idx < 0 THEN idx + Len(hand) + 1 ELSE idx + 1

\* a win test that also takes a hand of one card for a win
Won_one_left(hand) == Len(hand) <= 1

\* if not hand: the player has won
Won(hand) == hand = <<>>

\* one round of the card loop: the prompt, the answer ans and what follows
HumanSelect(ans) ==
    /\ pc = "select"
    /\ UNCHANGED <<rvars, closed>>
    /\ dec' = ans
    /\ LET hand == Cur.hand
           ask == <<send_input(Cur.name, "Select your card: ")>>
           stay(what) == /\ Step(deck, played, play_order, i, skipped, "select", card,
                                 ask \o <<send_user(Cur.name, what)>>, turns)
                         /\ UNCHANGED refills
       IN IF upper(ans) = "DRAW"
          THEN DrawAction(ask)
          ELSE IF ~isdigit(ans)
          THEN stay("That isnt a valid index! Send a number!")
          ELSE IF TooBig(ans, hand)
          THEN stay("That is an invalid index!")
          ELSE LET idx == int(ans) - 1
                   ncard == hand[(idx % Len(hand)) + 1]
               IN IF ~legal(ncard, Last(played))
                  THEN stay("You cannot play")
                  ELSE IF PopRaises(idx, hand)
                  THEN /\ Step(deck, played, play_order, i, skipped, "crash_pop", card,
                               ask, turns)
                       /\ UNCHANGED refills
                  ELSE LET at == PopAt(idx, hand)
                           c == hand[at]
                           po == [play_order EXCEPT ![i + 1].hand = RemoveAt(hand, at)]
                       IN IF Won(RemoveAt(hand, at))
                          THEN /\ Step(deck, played, po, i, skipped, "done", c,
                                       ask \o <<broadcast(Cur.name, "won!")>>, turns)
                               /\ UNCHANGED refills
                          ELSE IF IsWild(c)
                          THEN /\ Step(deck, played, po, i, skipped, "color", c, ask, turns)
                               /\ UNCHANGED refills
                          ELSE ApplyEffects(c, Cur.name, po, ask)

\* one round of the color loop after a human's wild card
HumanColor(inp) ==
    /\ pc = "color"
    /\ UNCHANGED <<rvars, closed>>
    /\ UNCHANGED dec
    /\ LET newcolor == upper(inp)
           ask == <<send_input(Cur.name, "Select a color")>>
       IN IF newcolor \notin Range(colors)
          THEN /\ Step(deck, played, play_order, i, skipped, "color", card,
                       ask \o <<send_user(Cur.name, "That color is invalid! Try again")>>,
                       turns)
               /\ UNCHANGED refills
          ELSE ApplyEffects(<<"WILD", newcolor>>, Cur.name, play_order, ask)

\* the bot's turn
AITurn ==
    /\ pc = "turn"
    /\ turns < MaxTurns
    /\ ~skipped
    /\ ~Cur.human
    /\ UNCHANGED <<rvars, closed>>
    /\ UNCHANGED dec
    /\ LET hand == Cur.hand
           say == <<broadcast(Cur.name, "turn")>>
       IN IF choices(hand, Last(played)) = {}
          THEN DrawAction(say)
          ELSE \E j \in choices(hand, Last(played)) :
                  LET c == hand[j]
                      rest == RemoveAt(hand, j)
                      po == [play_order EXCEPT ![i + 1].hand = rest]
                  IN IF IsWild(c)
                     THEN \E color \in AIColor(rest) :
                             ApplyEffects(<<c[1], color>>, Cur.name, po, say)
                     ELSE ApplyEffects(c, Cur.name, po, say)

\* the sockets of the humans of the game (the keys of connected)
Humans == {play_order[k].name : k \in {k \in DOMAIN play_order : play_order[k].human}}

\* run_game after start() has returned: for sock in connected: sock.close()
RunClose ==
    /\ pc = "done"
    /\ pc' = "closed"
    /\ closed' = closed \cup Humans
    /\ out' = <<>>
    /\ UNCHANGED <<deck, played, play_order, i, skipped, card, dec, turns, refills>>
    /\ UNCHANGED rvars

\* an exception start() does not catch leaves run_game before its closes and
\* ends the server process, and with it every connection
ProcessEnds ==
    /\ pc \in {"crash_draw", "crash_pop"}
    /\ pc' = "aborted"
    /\ closed' = closed \cup Humans
    /\ out' = <<>>
    /\ UNCHANGED <<deck, played, play_order, i, skipped, card, dec, turns, refills>>
    /\ UNCHANGED rvars

Next ==
    \/ SkipTurn
    \/ HumanTurn
    \/ \E ans \in DecInputs : HumanSelect(ans)
    \/ \E inp \in ColorInputs : HumanColor(inp)
    \/ AITurn
    \/ RunClose
    \/ ProcessEnds

Spec == Init /\ [][Next]_vars

(***************************************************************************)
(* The registration and run_game up to the deal.  The connect phase is     *)
(* await_connect(sock, maxconnections, timeout), the naming phase          *)
(* await_usernames(connected, timeout).  Time is counted in whole units of *)
(* the clock, and of two reads of time.monotonic() the later one gives an  *)
(* instant at least one unit later: a pass of a loop reads the clock after *)
(* the read of stime and after the select before it.  One step of a loop   *)
(* is one return of select with what follows it up to the test at the head *)
(* of the loop; while select blocks, clients connect, names arrive and     *)
(* time goes by.  An exception that nothing catches ends the process and   *)
(* with it the connections.  rpc is the place in run_game: "select"        *)
(* in the connect loop, "returned" after it, "nselect" in the naming loop, *)
(* "named" after it, "started" in the turn loop, and "raised_..." after an *)
(* exception.                                                              *)
(***************************************************************************)
\* largest maxconnections followed
MaxConn == 2
\* largest timeout await_connect and await_usernames are called with
MaxTimeout == 1
\* clients that try to connect
MaxClients == 2
\* how often time goes by in one run
MaxWaits == 3
\* the latest instant the clock is let run to while a select blocks
MaxTime == 2000

\* select.select(..., timeout * 1000)
SelectScale == 1000

\* the sockets of the clients
ClientSocks == <<"c1", "c2", "c3", "c4">>

Clients == {ClientSocks[k] : k \in 1..MaxClients}

\* the numbers of AI players run_game is called with: a negative one, none,
\* some, and so many that the cards do not suffice
AICounts == {0 - 1, 0, MaxAI, Len(cards) \div HandSize}

\* the game variables while the connect phase is followed
GameIdle ==
    /\ deck = <<>>
    /\ played = <<>>
    /\ play_order = <<>>
    /\ i = 0
    /\ skipped = FALSE
    /\ pc = "idle"
    /\ card = NoCard
    /\ dec = ""
    /\ out = <<>>
    /\ turns = 0
    /\ refills = 0

\* await_connect is entered: stime is read and the first select begins
InitReg ==
    /\ GameIdle
    /\ maxconnections \in 1..MaxConn
    /\ ctimeout \in 0..MaxTimeout
    /\ timeout = ctimeout
    /\ now = 0
    /\ stime = 0
    /\ selstart = 0
    /\ connected = <<>>
    /\ sock = "listen"
    /\ backlog = <<>>
    /\ sentname = {}
    /\ wire = <<>>
    /\ waits = 0
    /\ rpc = "select"
    /\ named = <<>>
    /\ all = <<>>
    /\ utimeout \in 0..MaxTimeout
    /\ n_ai_players \in AICounts
    /\ closed = {}

\* select reports s readable: a connection waits on the listening socket,
\* or data has arrived on a client's socket
Readable(s) == IF s = "listen" THEN backlog # <<>> ELSE s \in sentname

\* the instant at which the select in progress gives up
SelectExpiry == selstart + timeout * SelectScale

\* broadcast(connected, ...): one message line to every socket of the list
Broadcast(to, what) == [k \in 1..Len(to) |-> [to |-> to[k], kind |-> "message", what |-> what]]

\* after the loop: raise if nobody connected, else return connected
AfterLoop(conn) == IF conn = <<>> THEN "raised_nobody" ELSE "returned"

\* timeout = timeout - (stime - time.monotonic()), the clock being read at
\* the instant now' of the pass
NewTimeout == timeout - (stime - now')

\* the end of one pass of the loop with the list conn: the new timeout, the
\* break on timeout <= 0, the test of the while, the next select
LoopOn(conn) ==
    /\ now' = now + 1
    /\ timeout' = NewTimeout
    /\ rpc' = IF NewTimeout <= 0 \/ Len(conn) = maxconnections
              THEN AfterLoop(conn)
              ELSE "select"
    /\ selstart' = now'

\* select returns [sock]: rr[0].accept() and the rest of the pass
ConnectReady ==
    /\ rpc = "select"
    /\ Readable(sock)
    /\ UNCHANGED <<gvars, closed, nvars>>
    /\ UNCHANGED <<stime, ctimeout, maxconnections, sentname, waits>>
    /\ IF sock = "listen"
       THEN LET c == Head(backlog)
            IN /\ backlog' = Tail(backlog)
               /\ connected' = Append(connected, c)
               /\ sock' = c
               /\ wire' = wire \o Broadcast(Append(connected, c), "connected!")
               /\ LoopOn(Append(connected, c))
       \* accept() on a socket that does not listen raises OSError
       ELSE /\ rpc' = "raised_accept"
            /\ UNCHANGED <<backlog, connected, sock, wire, timeout, selstart, now>>

\* select returns [] when its timeout has gone by
ConnectTimeout ==
    /\ rpc = "select"
    /\ ~Readable(sock)
    /\ now >= SelectExpiry
    /\ UNCHANGED <<gvars, closed, nvars>>
    /\ UNCHANGED <<stime, ctimeout, maxconnections, sentname, waits, backlog,
                   connected, sock, wire>>
    /\ LoopOn(connected)

\* time goes by while select blocks: a second, or all that is left of the
\* select's timeout
TimePasses ==
    /\ rpc \in {"select", "nselect"}
    /\ waits < MaxWaits
    /\ now < SelectExpiry
    /\ \E t \in {now + 1, SelectExpiry} : t <= MaxTime /\ now' = t
    /\ waits' = waits + 1
    /\ UNCHANGED <<gvars, closed, nvars>>
    /\ UNCHANGED <<rpc, stime, timeout, ctimeout, maxconnections, connected, sock,
                   selstart, backlog, sentname, wire>>

\* Client.__init__: the client connects to the listening socket, which is
\* open as long as the process runs ...
ClientConnect(c) ==
    /\ rpc \notin {"idle", "aborted"}
    /\ c \notin Range(backlog) \cup Range(connected) \cup Range(all)
    /\ backlog' = Append(backlog, c)
    /\ UNCHANGED <<gvars, closed, nvars>>
    /\ UNCHANGED <<rpc, now, stime, timeout, ctimeout, maxconnections, connected, sock,
                   selstart, sentname, wire, waits>>

\* ... and sends its name, which arrives at the server
ClientSendName(c) ==
    /\ rpc \notin {"idle", "aborted"}
    /\ c \in Range(backlog) \cup Range(connected)
    /\ c \notin sentname
    /\ sentname' = sentname \cup {c}
    /\ UNCHANGED <<gvars, closed, nvars>>
    /\ UNCHANGED <<rpc, now, stime, timeout, ctimeout, maxconnections, connected, sock,
                   selstart, backlog, wire, waits>>

\* connect_names goes on to await_usernames(connected, username_timeout):
\* stime is read, named is empty, all is a copy of connected
EnterNames ==
    /\ rpc = "returned"
    /\ rpc' = "nselect"
    /\ stime' = now
    /\ selstart' = now
    /\ timeout' = utimeout
    /\ named' = <<>>
    /\ all' = connected
    /\ UNCHANGED <<gvars, closed>>
    /\ UNCHANGED <<now, ctimeout, maxconnections, connected, sock, backlog, sentname,
                   wire, waits, utimeout, n_ai_players>>

\* the sockets of conn that select reports readable, in the order of conn
Ready(conn) == SelectSeq(conn, LAMBDA c : c \in sentname)

\* the naming notices of one pass: a broadcast to all for each socket of rr
Notices(rr) ==
    [k \in 1..(Len(rr) * Len(all)) |->
        [to |-> all[((k - 1) % Len(all)) + 1], kind |-> "message",
         what |-> "has chosen name"]]

\* sock.send(json.dumps({"error": ...})) to each socket still unnamed
Errors(conn) ==
    [k \in 1..Len(conn) |->
        [to |-> conn[k], kind |-> "error", what |-> "You didn't send a name in time!"]]

\* one pass of the loop of await_usernames after select returned rr: the new
\* timeout, the names read, the break on timeout <= 0, the test of the while
\* and, when the loop is left, the raise or the closes and the return
NamesPass(rr) ==
    LET named1 == named \o rr
        conn1 == SelectSeq(connected, LAMBDA c : c \notin Range(rr))
        over == NewTimeout <= 0 \/ Len(named1) >= Len(all)
    IN /\ now' = now + 1
       /\ timeout' = NewTimeout
       /\ selstart' = now'
       /\ named' = named1
       /\ connected' = conn1
       /\ IF ~over
          THEN /\ rpc' = "nselect"
               /\ wire' = wire \o Notices(rr)
               /\ closed' = closed
          ELSE IF named1 = <<>>
          THEN /\ rpc' = "raised_noname"
               /\ wire' = wire \o Notices(rr)
               /\ closed' = closed
          ELSE /\ rpc' = "named"
               /\ wire' = wire \o Notices(rr) \o Errors(conn1)
               /\ closed' = closed \cup Range(conn1)
       /\ UNCHANGED gvars
       /\ UNCHANGED <<stime, ctimeout, maxconnections, sock, backlog, sentname, waits,
                      all, utimeout, n_ai_players>>

\* select returns the sockets whose name has arrived
NamesReady ==
    /\ rpc = "nselect"
    /\ Ready(connected) # <<>>
    /\ NamesPass(Ready(connected))

\* select returns [] when its timeout has gone by
NamesTimeout ==
    /\ rpc = "nselect"
    /\ Ready(connected) = <<>>
    /\ now >= SelectExpiry
    /\ NamesPass(<<>>)

\* run_game calls start(connected, ai_players) with the named sockets: the
\* checks on the number of players, then the deal and the start card
StartGame ==
    /\ rpc = "named"
    /\ UNCHANGED <<now, stime, timeout, ctimeout, maxconnections, connected, sock,
                   selstart, backlog, sentname, waits, nvars, closed>>
    /\ IF ~StartOK(Len(named), n_ai_players)
       THEN /\ rpc' = "raised_config"
            /\ UNCHANGED <<gvars, wire>>
       ELSE \E d0 \in DeckSamples :
               /\ rpc' = "started"
               /\ wire' = wire \o Broadcast(named, "Start Card")
               /\ play_order' = Deal(Len(named), n_ai_players, d0).play_order
               /\ deck' = Deal(Len(named), n_ai_players, d0).deck
               /\ played' = Deal(Len(named), n_ai_players, d0).played
               /\ out' = <<broadcast("", "Start Card")>>
               /\ pc' = "turn"
               /\ UNCHANGED <<i, skipped, card, dec, turns, refills>>

\* the exceptions of the registration and of start()'s checks
Raised == {"raised_nobody", "raised_accept", "raised_noname", "raised_config"}

\* an exception leaves run_game, which catches nothing, before its closes
\* and ends the server process: the connections accepted and those waiting
\* on the listening socket end with it
RegistrationRaises ==
    /\ rpc \in Raised
    /\ rpc' = "aborted"
    /\ closed' = closed \cup Range(connected) \cup Range(all) \cup Range(backlog)
    /\ UNCHANGED gvars
    /\ UNCHANGED <<now, stime, timeout, ctimeout, maxconnections, connected, sock,
                   selstart, backlog, sentname, wire, waits, nvars>>

NextReg ==
    \/ RegistrationRaises
    \/ ConnectReady
    \/ ConnectTimeout
    \/ TimePasses
    \/ \E c \in Clients : ClientConnect(c)
    \/ \E c \in Clients : ClientSendName(c)
    \/ EnterNames
    \/ NamesReady
    \/ NamesTimeout
    \/ StartGame

SpecReg == InitReg /\ [][NextReg]_vars

\* the lists of connections await_usernames is called with
ConnLists ==
    {s \in UNION {[1..n -> Clients] : n \in 1..MaxConn} :
        \A a, b \in DOMAIN s : a # b => s[a] # s[b]}

\* await_usernames(connected, timeout) is entered with a list of connections
InitNames ==
    /\ GameIdle
    /\ rpc = "nselect"
    /\ connected \in ConnLists
    /\ all = connected
    /\ named = <<>>
    /\ utimeout \in 0..MaxTimeout
    /\ timeout = utimeout
    /\ n_ai_players \in AICounts
    /\ now = 0
    /\ stime = 0
    /\ selstart = 0
    /\ ctimeout = 0
    /\ maxconnections = Len(connected)
    /\ sock = "listen"
    /\ backlog = <<>>
    /\ sentname = {}
    /\ wire = <<>>
    /\ waits = 0
    /\ closed = {}

NextNames ==
    \/ RegistrationRaises
    \/ NamesReady
    \/ NamesTimeout
    \/ TimePasses
    \/ \E c \in Clients : ClientSendName(c)
    \/ StartGame

SpecNames == InitNames /\ [][NextNames]_vars

(***************************************************************************)
(* Notions the properties below are stated with.                           *)
(***************************************************************************)
Names == {play_order[k].name : k \in DOMAIN play_order}

\* the hand of the player called nm in the play order po
HandOf(po, nm) == po[CHOOSE k \in DOMAIN po : po[k].name = nm].hand

SizeOf(po, nm) == Len(HandOf(po, nm))

RECURSIVE AllHands(_)
AllHands(po) == IF po = <<>> THEN <<>> ELSE po[1].hand \o AllHands(SubSeq(po, 2, Len(po)))

\* every card of the deck, the discard pile and the hands
AllCards == deck \o played \o AllHands(play_order)

\* a wild card whatever color it was given
Norm(c) == IF IsWild(c) THEN <<c[1], "ALL">> ELSE c

Occ(s, c) == Cardinality({k \in DOMAIN s : Norm(s[k]) = c})

\* the step completed a play: the card went to the discard pile, its
\* effects were applied and the loop is at the next iteration
PlayStep == pc' = "turn" /\ \E m \in Range(out') : m.what = "played"

\* the rank of the card the step's play took from the hand
PlayedRank == IF pc = "color" THEN card[1] ELSE card'[1]

\* the player after the current one, with wraparound
Receiver == play_order[NextPlayer(play_order)].name

\* cards in the deck, the discard pile, the hands and, during a human's
\* color selection, the wild card taken from the hand
Total ==
    Len(deck) + Len(played) + Len(AllHands(play_order)) + (IF pc = "color" THEN 1 ELSE 0)

\* C1: whenever a player's hand becomes empty, the engine broadcasts the win
\* notice naming that player and returns.
C1_LastCardWins ==
    [][\A nm \in Names :
          (HandOf(play_order, nm) # <<>> /\ HandOf(play_order', nm) = <<>>)
              => (pc' = "done" /\ broadcast(nm, "won!") \in Range(out'))]_vars

\* C2: at every turn boundary the cards of the deck, the discard pile and the
\* hands are, wild colors aside, the 108 cards of the initial deck.
C2_CardsConserved ==
    pc = "turn" =>
        /\ Len(AllCards) = Len(cards)
        /\ \A c \in Range(cards) : Occ(AllCards, c) = Occ(cards, c)

\* the card loop examines the answer as a selection
Taken == pc = "select" /\ isdigit(dec') /\ ~TooBig(dec', Cur.hand)

\* the card the answer selects
Selected == Cur.hand[((int(dec') - 1) % Len(Cur.hand)) + 1]

Accepted ==
    /\ pc' \notin {"select", "crash_pop"}
    /\ card' = Selected
    /\ pc' \in {"done", "color"} =>
           play_order'[i + 1].hand
               = RemoveAt(Cur.hand, ((int(dec') - 1) % Len(Cur.hand)) + 1)

Rejected ==
    /\ pc' = "select"
    /\ UNCHANGED <<deck, played, play_order>>
    /\ \E m \in Range(out') : m.kind = "message" /\ m.to = Cur.name

\* C3: a human's numeric selection is accepted (the card leaves the hand) if
\* the selected card is a wild or matches the discard top in rank or color,
\* and is otherwise rejected with a message, nothing changed.
C3_AcceptedIffLegal ==
    [][Taken => IF legal(Selected, Last(played)) THEN Accepted ELSE Rejected]_vars

\* C4: when a DRAW2 (WILD4) is played, the next player in the play order has
\* 2 (4) cards more before the next decision, no other hand changes but for
\* the card played, and the number of cards is conserved.
C4_ForcedDraw ==
    [][(PlayStep /\ PlayedRank \in {"DRAW2", "WILD4"}) =>
          LET n == IF PlayedRank = "DRAW2" THEN 2 ELSE 4
          IN /\ \A nm \in Names :
                    SizeOf(play_order', nm)
                        = SizeOf(play_order, nm)
                          - (IF nm = Cur.name /\ pc # "color" THEN 1 ELSE 0)
                          + (IF nm = Receiver THEN n ELSE 0)
             /\ Total' = Total]_vars

\* C5: after a SKIP played from any position the following player is skipped:
\* the flag is set for their iteration, and that iteration sends the "was
\* skipped" notice, clears the flag and passes on without a decision.
C5_SkipNext ==
    [][/\ (PlayStep /\ PlayedRank = "SKIP" /\ HandOf(play_order', Cur.name) # <<>>)
              => skipped'
       /\ (pc = "turn" /\ skipped) =>
              /\ out' = <<broadcast(Cur.name, "was skipped")>>
              /\ ~skipped'
              /\ pc' = "turn"
              /\ i' = NextI
              /\ UNCHANGED <<deck, played, play_order>>]_vars

\* the step is a draw action: a human answered DRAW, or the AI has no card
\* it may play
DrawActionStep ==
    \/ pc = "select" /\ upper(dec') = "DRAW"
    \/ pc = "turn" /\ ~skipped /\ ~Cur.human /\ choices(Cur.hand, Last(played)) = {}

\* the step played a card that makes the next player draw
ForcedDrawStep == (\E m \in Range(out') : m.what = "played") /\ DrawCount(card') > 0

\* C6 (amended): draw_card fails exactly when the deck is empty and the
\* discard pile holds a single card, its top: a draw action fails in that
\* state and no other, a forced draw of n cards fails exactly when the deck
\* and the cards under the new discard top are fewer than n, and nothing
\* else raises draw_card's error.
C6_DrawFailsIffExhausted ==
    [][/\ DrawActionStep =>
              (pc' = "crash_draw" <=> (deck = <<>> /\ Len(played) = 1))
       /\ ForcedDrawStep =>
              (pc' = "crash_draw" <=> Len(deck) + Len(played) < DrawCount(card'))
       /\ pc' = "crash_draw" =>
              /\ DrawActionStep \/ ForcedDrawStep
              /\ deck' = <<>>
              /\ Len(played') = 1]_vars

\* a draw that found the deck empty, refilled it from the discard pile and
\* went on
C6_Witness == pc = "turn" /\ refills > 0 /\ deck # <<>>

\* C6 (as claimed): in every state a game reaches every call to draw_card
\* returns a card.
C6_DrawNeverFails == pc # "crash_draw"

\* the answer is rejected with the message what, nothing changed
RejectedWith(what) ==
    /\ pc' = "select"
    /\ UNCHANGED <<deck, played, play_order, card>>
    /\ send_user(Cur.name, what) \in Range(out')

\* the card at position at (1-based) left the current player's hand
RemovedAt(at) ==
    /\ card' = Cur.hand[at]
    /\ pc' \in {"done", "color", "turn", "crash_draw"}
    /\ SubSeq(HandOf(play_order', Cur.name), 1, Len(Cur.hand) - 1)
           = RemoveAt(Cur.hand, at)

\* C7 (amended): a digit-string answer k is taken as a selection only if
\* k - 1 <= len(hand); a larger k is rejected with the invalid-index message.
\* For 1 <= k <= len(hand) the card checked and, if legal, removed is the one
\* at 0-based index k - 1, and for k = 0 it is the last card.  For
\* k = len(hand) + 1 the card checked is the first card, and if it is legal
\* the removal raises and the hand is left as it was.  An answer that is
\* neither DRAW nor a digit string causes a re-prompt.
C7_IndexInRange ==
    [][pc = "select" =>
          LET hand == Cur.hand
              n == Len(hand)
          IN IF isdigit(dec')
             THEN LET k == int(dec')
                      at == IF k = 0 THEN n ELSE k
                  IN IF k - 1 > n
                     THEN RejectedWith("That is an invalid index!")
                     ELSE IF k - 1 = n
                     THEN IF legal(hand[1], Last(played))
                          THEN pc' = "crash_pop" /\ UNCHANGED <<deck, played, play_order>>
                          ELSE RejectedWith("You cannot play")
                     ELSE IF legal(hand[at], Last(played))
                          THEN RemovedAt(at)
                          ELSE RejectedWith("You cannot play")
             ELSE upper(dec') # "DRAW" =>
                      RejectedWith("That isnt a valid index! Send a number!")]_vars

\* a turn followed here was a human's play of the card they selected with a
\* number of 2 or more
C7_Witness ==
    /\ isdigit(dec)
    /\ int(dec) >= 2
    /\ pc = "turn"
    /\ turns > 0
    /\ \E m \in Range(out) : m.what = "played"
    /\ \E m \in Range(out) : m.kind = "input"

\* C7 (as claimed): every positive number k is accepted as an index,
\* whatever its size relative to the hand: the card at (k - 1) mod len(hand)
\* is checked, never the number turned down.
C7_AnyNumberAccepted ==
    [][(pc = "select" /\ isdigit(dec') /\ int(dec') >= 1) =>
          /\ ~RejectedWith("That is an invalid index!")
          /\ pc' = "select" => RejectedWith("You cannot play")]_vars

\* C8 (amended): a draw action for which draw_card returns a card adds that
\* one card to the acting player's hand, changes no other hand and not the
\* play order, leaves the discard top as it is, and the discard pile too
\* unless the deck was empty, when the pile is cut down to its top; no card
\* is played and no effect follows (no skip, no forced draw).
C8_DrawAction ==
    [][(DrawActionStep /\ pc' # "crash_draw") =>
          /\ pc' = "turn"
          /\ Len(play_order'[i + 1].hand) = Len(Cur.hand) + 1
          /\ play_order'
                 = [play_order EXCEPT ![i + 1].hand = Append(@, Last(play_order'[i + 1].hand))]
          /\ played' = IF deck = <<>> THEN <<Last(played)>> ELSE played
          /\ Total' = Total
          /\ ~skipped'
          /\ i' = NextI
          /\ \A m \in Range(out') : m.what \notin {"played", "drew 2 cards", "drew 4 cards"}]_vars

\* a draw action that refilled the deck from a discard pile of several cards
C8_Witness ==
    /\ pc = "turn"
    /\ refills > 0
    /\ Len(played) = 1
    /\ \E m \in Range(out) : m.what = "drew a card"

\* C8 (as claimed): a draw action that adds its card to the hand leaves the
\* discard pile unchanged.
C8_DrawKeepsDiscard ==
    [][(DrawActionStep /\ Len(play_order'[i + 1].hand) = Len(Cur.hand) + 1) =>
          played' = played]_vars

\* the step played a REVERSE
ReverseStep == PlayStep /\ PlayedRank = "REVERSE"

\* C9: a REVERSE turns the play order around while the loop index goes on to
\* the next index; in a play order of two the player who played it is the
\* one at the next index, and is not skipped.
C9_Reverse ==
    [][ReverseStep =>
          /\ \A k \in DOMAIN play_order :
                 play_order'[k].name = play_order[Len(play_order) + 1 - k].name
          /\ i' = NextI
          /\ Len(play_order) = 2 =>
                 (play_order'[i' + 1].name = Cur.name /\ ~skipped')]_vars

\* a REVERSE played from the last position of a play order of two
C9_Witness ==
    /\ pc = "turn"
    /\ card[1] = "REVERSE"
    /\ Len(play_order) = 2
    /\ i = 0
    /\ \E m \in Range(out) : m.what = "played"

\* the step is one pass of the loop of await_connect
ConnectPass == rpc = "select" /\ (ConnectReady \/ ConnectTimeout)

\* C10: once the deadline of the connect phase has gone by, the pass of the
\* loop that follows ends the phase: with the no-participants error if
\* nobody connected, else by returning the connections made.
C10_ConnectEndsAtDeadline ==
    [][(ConnectPass /\ now - stime >= ctimeout) =>
          rpc' = IF connected' = <<>> THEN "raised_nobody" ELSE "returned"]_vars

\* the step is one pass of the loop of await_usernames
NamesStep == rpc = "nselect" /\ (NamesReady \/ NamesTimeout)

\* C11: once the deadline of the naming phase has gone by, a pass of the loop
\* that leaves at least one connection named and another unnamed ends the
\* phase: each unnamed connection is sent the error message and closed, and
\* the named ones are returned, none of them closed.
C11_NamingEndsAtDeadline ==
    [][(NamesStep /\ now - stime >= utimeout /\ named' # <<>> /\ connected' # <<>>) =>
          /\ rpc' = "named"
          /\ Range(connected') \subseteq closed'
          /\ \A c \in Range(connected') :
                 \E k \in DOMAIN wire' : wire'[k].to = c /\ wire'[k].kind = "error"
          /\ Range(named') \cap (closed' \cup Range(connected')) = {}]_vars

\* C12: the connect phase never fails in accept, and every pass of its loop
\* that finds a connection waiting on the listening socket accepts it, until
\* the maximum is reached.
C12_AcceptsEachConnection ==
    [][ConnectPass =>
          /\ rpc' # "raised_accept"
          /\ backlog # <<>> => connected' = Append(connected, Head(backlog))
          /\ rpc' = "returned" => Len(connected') <= maxconnections]_vars

\* C13: the server sends nothing to any client before the connect phase and
\* the naming phase have both finished.
C13_SilentUntilNamed == rpc \in {"select", "returned", "nselect"} => wire = <<>>

\* C14: whenever the connection of a human of the game is closed, the step
\* before has sent that client the notice declaring the winner.
C14_WinnerBeforeClose ==
    [][\A c \in closed' \ closed :
          \E m \in Range(out) : m.what = "won!" /\ m.to \in {"all", c}]_vars

\* C15: when the game is rejected for too many players, no connection has
\* been accepted, no name read and no message sent.
C15_RejectedBeforeIO ==
    (rpc = "raised_config" /\ n_ai_players >= 0) =>
        /\ wire = <<>>
        /\ named = <<>>
        /\ all = <<>>
        /\ connected = <<>>

\* C16: the engine returns only right after a human's accepted play that
\* took the last card of the acting player's hand, with the win notice
\* naming that player; it does not return after a draw action, a skipped
\* turn or a forced draw, nor while the acting player holds a card.
C16_ReturnsOnlyOnWin ==
    [][(pc' = "done" /\ pc # "done") =>
          /\ pc = "select"
          /\ isdigit(dec')
          /\ Len(Cur.hand) = 1
          /\ legal(Cur.hand[1], Last(played))
          /\ card' = Cur.hand[1]
          /\ play_order'[i + 1].name = Cur.name
          /\ play_order'[i + 1].hand = <<>>
          /\ broadcast(Cur.name, "won!") \in Range(out')
          /\ \A m \in Range(out') : m.what \notin {"drew a card", "was skipped",
                                                    "drew 2 cards", "drew 4 cards"}
          /\ UNCHANGED <<deck, played, i>>]_vars

\* the engine has returned after a human played their last card
C16_Witness ==
    /\ pc = "done"
    /\ play_order[i + 1].hand = <<>>
    /\ \E m \in Range(out) : m.what = "won!"

\* C17: no card of the discard pile has the color ALL.
C17_NoAllOnDiscard == \A k \in DOMAIN played : played[k][2] # "ALL"

\* the lists s and t hold the same cards, each as often
SameCards(s, t) ==
    /\ Len(s) = Len(t)
    /\ \A c \in Range(s) \cup Range(t) :
           Cardinality({k \in DOMAIN s : s[k] = c}) = Cardinality({k \in DOMAIN t : t[k] = c})

\* C18: draw_card called with the deck and the discard pile of any state a
\* game reaches: from an empty deck and a pile of two or more cards the pile
\* is left as its previous top alone, and the card returned together with
\* the new deck are the other cards of the pile; from a non-empty deck the
\* deck's last card is returned, the deck loses it and the pile is untouched.
\* The discard top is the same before and after.
C18_DrawCard ==
    \A r \in draw_card(deck, played) :
        /\ (deck = <<>> /\ Len(played) >= 2) =>
               /\ r.ok
               /\ r.played = <<Last(played)>>
               /\ SameCards(Append(r.deck, r.card), Front(played))
               /\ Len(r.deck) = Len(played) - 2
        /\ deck # <<>> =>
               /\ r.ok
               /\ r.card = Last(deck)
               /\ r.deck = Front(deck)
               /\ r.played = played
        /\ (r.ok /\ played # <<>>) => Last(r.played) = Last(played)

\* in the course of a game the deck is empty under a pile of several cards
C18_Witness == deck = <<>> /\ Len(played) >= 2 /\ turns > 0 /\ pc \in {"turn", "select"}

\* the step is the turn of an AI
AIStep == pc = "turn" /\ ~skipped /\ ~Cur.human

\* C19: on its turn an AI takes a draw action exactly when none of its cards
\* is a wild or matches the discard top in rank or color; otherwise one card
\* leaves its hand, and that card is a wild or matches the discard top.
C19_AIPlaysIffLegal ==
    [][AIStep =>
          LET hand == Cur.hand
              top == Last(played)
              ok(c) == c[1] \in {"WILD", "WILD4"} \/ c[1] = top[1] \/ c[2] = top[2]
              drew == \/ pc' = "crash_draw"
                      \/ broadcast(Cur.name, "drew a card") \in Range(out')
              put == broadcast(Cur.name, "played") \in Range(out')
          IN IF \A j \in DOMAIN hand : ~ok(hand[j])
             THEN /\ drew
                  /\ ~put
                  /\ pc' = "turn" => /\ Len(HandOf(play_order', Cur.name)) = Len(hand) + 1
                                     /\ SubSeq(HandOf(play_order', Cur.name), 1, Len(hand)) = hand
                                     /\ Last(played') = top
             ELSE /\ put
                  /\ ~(broadcast(Cur.name, "drew a card") \in Range(out'))
                  /\ \E j \in DOMAIN hand :
                        /\ ok(hand[j])
                        /\ card'[1] = hand[j][1]
                        /\ HandOf(play_order', Cur.name) = RemoveAt(hand, j)
                        /\ Last(played') = card']_vars

\* an AI has played a card that matches the discard top in rank only
C19_Witness ==
    /\ pc = "turn"
    /\ Len(played) >= 2
    /\ card = Last(played)
    /\ ~IsWild(card)
    /\ card[1] = played[Len(played) - 1][1]
    /\ card[2] # played[Len(played) - 1][2]
    /\ \E m \in Range(out) : m.what = "played" /\ m.who \in Range(AINames)

\* C20: at every turn boundary the deck, the discard pile and the hands hold
\* 108 cards together, and the play order keeps its number of entries.
C20_CountConserved ==
    /\ pc = "turn" => Total = Len(cards)
    /\ [][/\ pc' = "turn" => Total' = Len(cards)
          /\ Len(play_order') = Len(play_order)]_vars

\* a turn boundary after a forced draw that refilled the deck
C20_Witness ==
    /\ pc = "turn"
    /\ refills > 0
    /\ \E m \in Range(out) : m.what \in {"drew 2 cards", "drew 4 cards"}


====
